---- MODULE Spec2Model ----
(***************************************************************************)
(* util::thread_queue (src/thread_queue/thread_queue.hpp): a FIFO queue of *)
(* jobs (fifo_queue<job_t>) and a dispatcher that runs each job on its own *)
(* detached std::thread.                                                   *)
(*                                                                         *)
(* Granularity.  A step is one access to shared memory, together with the  *)
(* thread-local work around it.  A fifo_queue critical section is one step *)
(* (its mutex serialises it, and an unlocked reader of _queue_size sees    *)
(* the value before or after it).  The accesses of _current_num_threads    *)
(* are split into a read and a write: `--_current_num_threads` at line 194 *)
(* runs without the dispatcher lock, so it races with the `++` of lines    *)
(* 211 and 224 and with other workers' `--`.                               *)
(***************************************************************************)
EXTENDS Integers, Sequences, FiniteSets, TLC

\* Bounds of the model.
MaxJobs == 3
MaxLimit == 2
MaxItems == 2
MaxPushes == 4
MaxStarts == 2
MaxBuffered == 2
Width == 8
MaxThreads == 2
MaxSpawned == 6
MaxDepth == 1

\* Values standing for the thread ids, the null pointer and an unowned mutex.
Main == 0
NULL == 0
NoThread == -1

Workers == 1 .. MaxJobs
Threads == {Main} \cup Workers
NodeIds == 1 .. MaxPushes

\* size_t arithmetic: unsigned, modulo 2^Width.
SizeMod == 2 ^ Width
SizeInc(x) == (x + 1) % SizeMod
SizeDec(x) == (x + SizeMod - 1) % SizeMod

VARIABLES
    \* fifo_queue<job_t> _jobs
    _queue_size, _first, _last, heap, fifo_lock,
    \* thread_queue
    _num_threads, _current_num_threads, _auto_start, _allow_new_jobs, _lock,
    \* threads: the owner (Main) and one detached std::thread per dispatched job
    pc, reg, dtor, nextJob, numJobs, crashed,
    \* history: items in push order, items in pop order, pops that threw,
    \* jobs accepted while the destructor was running, workers whose job
    \* threw, and the record of the calls of start()
    pushed, popped, popThrows, lateJobs, thrown, startLog

fifoVars == <<_queue_size, _first, _last, heap, fifo_lock>>
tqVars == <<_num_threads, _current_num_threads, _auto_start, _allow_new_jobs, _lock>>
threadVars == <<pc, reg, dtor, nextJob, numJobs, crashed>>
histVars == <<pushed, popped, popThrows, lateJobs, thrown, startLog>>

\* fff (src/fff/fff.cpp): the locals of main, which every examine_place
\* thread receives by reference, and the threads.
VARIABLES
    \* the pattern options given on the command line and the index of the
    \* loop of line 290; the other options and the non-option arguments
    args, index, options, operands,
    \* search parameters
    pattern, search_type, min_depth, max_depth, num_threads,
    \* shared state and its three mutexes
    places_queue, searched, thread_counter,
    output_lock, places_queue_lock, thread_counter_lock,
    \* main's loop variable (line 382), the control point of main and of each
    \* examine_place thread, the place object of each spawning loop
    \* (current_place of line 384, next_place of line 185), the locals of
    \* each examine_place thread, the number of threads and of list nodes
    \* created, and whether the process has ended abnormally
    thread_id, fpc, slot, frame, spawned, nodes, aborted,
    \* history: lines written to stdout, paths reported on stderr, the
    \* places given to places_queue.emplace_back, and for every match written
    \* at line 170 its path with the depth its thread had read at line 153
    out, err, queued, matches

argVars == <<args, index, options, operands>>
paramVars == <<pattern, search_type, min_depth, max_depth, num_threads>>
sharedVars == <<places_queue, searched, thread_counter, output_lock, places_queue_lock, thread_counter_lock>>
runVars == <<thread_id, fpc, slot, frame, spawned, nodes, aborted>>
logVars == <<out, err, queued, matches>>
fffVars == <<argVars, paramVars, sharedVars, runVars, logVars>>

vars == <<fifoVars, tqVars, threadVars, histVars, fffVars>>

\* unsigned int arithmetic is modulo 2^Width as well; `unsigned int max_depth
\* = -1` (line 251) is the largest value.
UintMax == SizeMod - 1

\* The threads of fff: main and one detached thread per examine_place call.
\* Each has one frame, whose loop-local place object is `slot`.
Examiners == 1 .. MaxSpawned
Frames == {Main} \cup Examiners

\* The names of pattern_str (line 289), in the order of the array, and the
\* occurrences of an option that was not given.  args[i] is the sequence of
\* the texts given with pattern_str[i]: its length is what the program reads
\* as args[name], its first element what it reads as args(name).
pattern_str == <<"-regex", "-iregex", "-name", "-iname">>
NoArg == <<>>

\* struct place, lines 46-70: the depth defaults to 0.
place(path, depth) == [path |-> path, depth |-> depth]
NoPlace == place("", 0)

\* The file system searched: directory r holds directory a and file x, and
\* a holds file t.  Entries is what std::filesystem::directory_iterator
\* (line 135) yields, is_directory the test of line 129, filename the last
\* component of a path (line 166) as its characters.
Paths == {"r", "r/a", "r/x", "r/a/t"}
Entries(path) ==
    CASE path = "r" -> <<"r/a", "r/x">>
      [] path = "r/a" -> <<"r/a/t">>
      [] OTHER -> <<>>
is_directory(path) == path \in {"r", "r/a"}
filename(path) ==
    CASE path = "r" -> <<"r">>
      [] path = "r/a" -> <<"a">>
      [] path = "r/x" -> <<"x">>
      [] OTHER -> <<"t">>

\* Classifying or enumerating this path may fail with a filesystem_error.
Unreadable == {"r/a"}

\* What is written to stdout, each line with the statement that writes it:
\* the path of line 125, the "1" of line 148, the "2" of line 156, the
\* matched path of line 170 and the usage text of line 358.
Lines == (Paths \X {125, 170}) \cup {<<"1", 148>>, <<"2", 156>>, <<"Usage:", 358>>}

\* The locals of an examine_place thread: the frame whose place object its
\* current_place refers to, is_directory (line 129), the entries the
\* directory_iterator has still to yield, new_place (line 141), the last
\* node of places_queue as emplace_back found it, the place whose directory
\* is being enumerated, and the depth read at line 153.
NoFrame == [ref |-> Main, is_directory |-> FALSE, it |-> <<>>, new_place |-> NoPlace, tail |-> NULL, dir |-> NoPlace, seen |-> 0]

\* std::regex(text) and std::regex(text, std::regex_constants::icase), lines
\* 296-311; a text is the sequence of its characters.
regex(text, icase) == [text |-> text, icase |-> icase]

\* wild_to_regex, lines 85-99: "^", every `*` replaced by ".*", "$".
RECURSIVE wild_chars(_)
wild_chars(wild) ==
    IF wild = <<>> THEN <<>>
    ELSE (IF Head(wild) = "*" THEN <<".", "*">> ELSE <<Head(wild)>>) \o wild_chars(Tail(wild))

wild_to_regex(wild) == <<"^">> \o wild_chars(wild) \o <<"$">>

\* Matching one character: `.` matches any, and with icase the case of a
\* letter is ignored.
lower(c) ==
    CASE c = "A" -> "a"
      [] c = "R" -> "r"
      [] c = "T" -> "t"
      [] c = "X" -> "x"
      [] OTHER -> c
char_match(c, d, icase) == c = "." \/ c = d \/ (icase /\ lower(c) = lower(d))

\* std::regex_match(name, pattern), line 167, for patterns made of
\* characters, `.`, `x*`, `^` and `$`: the whole name has to match.
RECURSIVE re_match(_, _, _)
re_match(re, name, icase) ==
    IF re = <<>> THEN name = <<>>
    ELSE IF Head(re) = "^" THEN re_match(Tail(re), name, icase)
    ELSE IF Head(re) = "$" THEN name = <<>> /\ re_match(Tail(re), name, icase)
    ELSE IF Len(re) >= 2 /\ re[2] = "*"
         THEN \E k \in 0 .. Len(name) :
                 /\ \A i \in 1 .. k : char_match(re[1], name[i], icase)
                 /\ re_match(Tail(Tail(re)), SubSeq(name, k + 1, Len(name)), icase)
    ELSE /\ name # <<>>
         /\ char_match(Head(re), Head(name), icase)
         /\ re_match(Tail(re), Tail(name), icase)

regex_match(name, re) == re_match(re.text, name, re.icase)

\* The options main reads after the pattern (lines 319-357), each with the
\* texts given with it, and a command line with none of them and no
\* non-option argument after the program name.
option_str == {"-type", "-mindepth", "-maxdepth", "-j", "-h"}
NoOptions ==
    /\ options = [o \in option_str |-> NoArg]
    /\ operands = <<>>

\* The state of fff before main has run: the defaults of lines 216-283.
SearchDefaults ==
    /\ index = 0
    /\ pattern = regex(<<".", "*">>, FALSE)
    /\ search_type = "any"
    /\ min_depth = 0
    /\ max_depth = UintMax
    /\ num_threads = 1
    /\ places_queue = <<>>
    /\ searched = {}
    /\ thread_counter = 0
    /\ output_lock = NoThread
    /\ places_queue_lock = NoThread
    /\ thread_counter_lock = NoThread
    /\ thread_id = 0
    /\ fpc = [t \in Frames |-> "none"]
    /\ slot = [t \in Frames |-> NoPlace]
    /\ frame = [t \in Examiners |-> NoFrame]
    /\ spawned = 0
    /\ nodes = 0
    /\ aborted = FALSE
    /\ out = [l \in Lines |-> 0]
    /\ err = {}
    /\ queued = {}
    /\ matches = {}

\* fff is not run: no option is given and main never starts.
NoSearch ==
    /\ args = [o \in 1 .. 4 |-> NoArg]
    /\ NoOptions
    /\ SearchDefaults

\* The record of start(): the number of calls, whether the call that set
\* _auto_start is still running, the queue size it found, the jobs it has
\* dispatched, and whether a job has pushed (pushes) or has written
\* _current_num_threads (decs) during it.
NoStart == [calls |-> 0, active |-> FALSE, buffered |-> 0, dispatched |-> 0, pushes |-> FALSE, decs |-> FALSE]

----------------------------------------------------------------------------
(* fifo_queue<item_t> *)

\* A heap cell that holds no node_t.
FreeNode == [item |-> NULL, next |-> NULL]

\* node_t(item): `next` is default-constructed (null).
node_t(item) == [item |-> item, next |-> NULL]

\* std::make_unique<node_t>: the address of a cell that holds no live node.
make_unique == CHOOSE n \in NodeIds : heap[n] = FreeNode /\ \A m \in NodeIds : heap[m] = FreeNode => n <= m

\* The items of the list owned by _first, head first.
RECURSIVE ListFrom(_, _)
ListFrom(n, fuel) == IF n = NULL \/ fuel = 0 THEN <<>> ELSE <<heap[n].item>> \o ListFrom(heap[n].next, fuel - 1)

Contents == ListFrom(_first, MaxPushes)

\* size() and empty(): unlocked reads of _queue_size.
size == _queue_size
empty == _queue_size = 0

\* peek(): the item of the first node.
peek == heap[_first].item

\* push as it would be without line 101 (`_last = _last->next.get()`).
push_noAdvance(self, item) ==
    /\ fifo_lock = NoThread
    /\ \E n \in NodeIds : heap[n] = FreeNode
    /\ IF _queue_size = 0
       THEN /\ heap' = [heap EXCEPT ![make_unique] = node_t(item)]
            /\ _first' = make_unique
            /\ _last' = make_unique
       ELSE /\ heap' = [heap EXCEPT ![_last].next = make_unique, ![make_unique] = node_t(item)]
            /\ _last' = _last
            /\ _first' = _first
    /\ _queue_size' = SizeInc(_queue_size)
    /\ fifo_lock' = NoThread
    /\ pushed' = Append(pushed, item)

\* push as it would be if the new node were linked in at the head of the list
\* instead of after _last.
push_front(self, item) ==
    /\ fifo_lock = NoThread
    /\ \E n \in NodeIds : heap[n] = FreeNode
    /\ IF _queue_size = 0
       THEN /\ heap' = [heap EXCEPT ![make_unique] = node_t(item)]
            /\ _first' = make_unique
            /\ _last' = make_unique
       ELSE /\ heap' = [heap EXCEPT ![make_unique] = [item |-> item, next |-> _first]]
            /\ _first' = make_unique
            /\ _last' = _last
    /\ _queue_size' = SizeInc(_queue_size)
    /\ fifo_lock' = NoThread
    /\ pushed' = Append(pushed, item)

\* push(item), lines 94-104.
push(self, item) ==
    /\ fifo_lock = NoThread
    /\ \E n \in NodeIds : heap[n] = FreeNode
    /\ IF _queue_size = 0
       THEN /\ heap' = [heap EXCEPT ![make_unique] = node_t(item)]
            /\ _first' = make_unique
            /\ _last' = make_unique
       ELSE /\ heap' = [heap EXCEPT ![_last].next = make_unique, ![make_unique] = node_t(item)]
            /\ _last' = make_unique
            /\ _first' = _first
    /\ _queue_size' = SizeInc(_queue_size)
    /\ fifo_lock' = NoThread
    /\ pushed' = Append(pushed, item)

\* pop(), lines 111-118, when the queue holds an item: the head is returned
\* (the caller reads it as `peek` in the same step) and its node is freed by
\* the move-assignment of _first.
popItem(self) ==
    /\ fifo_lock = NoThread
    /\ _queue_size # 0
    /\ _queue_size' = SizeDec(_queue_size)
    /\ _first' = heap[_first].next
    /\ heap' = [heap EXCEPT ![_first] = FreeNode]
    /\ _last' = _last
    /\ fifo_lock' = NoThread
    /\ popped' = Append(popped, peek)
    /\ popThrows' = popThrows

\* pop(), line 113, when _queue_size is 0: the post-decrement has already
\* been applied when the exception leaves the function, and line 116
\* (_lock.unlock()) is never reached.
popThrow(self) ==
    /\ fifo_lock = NoThread
    /\ _queue_size = 0
    /\ _queue_size' = SizeDec(_queue_size)
    /\ fifo_lock' = self
    /\ popThrows' = popThrows + 1
    /\ UNCHANGED <<_first, _last, heap, popped>>

pop(self) == popItem(self) \/ popThrow(self)

----------------------------------------------------------------------------
(* The queue on its own: client threads call push and pop in any order;  *)
(* a client that gets the exception of pop carries on.                   *)

InitFifo ==
    /\ _queue_size = 0
    /\ _first = NULL
    /\ _last = NULL
    /\ heap = [n \in NodeIds |-> FreeNode]
    /\ fifo_lock = NoThread
    /\ _num_threads = 1
    /\ _current_num_threads = 0
    /\ _auto_start = FALSE
    /\ _allow_new_jobs = TRUE
    /\ _lock = NoThread
    /\ pc = [t \in Threads |-> "idle"]
    /\ reg = [t \in Threads |-> 0]
    /\ dtor = FALSE
    /\ nextJob = 1
    /\ numJobs = 0
    /\ crashed = FALSE
    /\ pushed = <<>>
    /\ popped = <<>>
    /\ popThrows = 0
    /\ lateJobs = {}
    /\ thrown = {}
    /\ startLog = NoStart
    /\ NoSearch

FifoPush(t, item) ==
    /\ Len(pushed) < MaxPushes
    /\ push(t, item)
    /\ UNCHANGED <<popped, popThrows, lateJobs, thrown, startLog, tqVars, threadVars>>
    /\ UNCHANGED fffVars

FifoPop(t) ==
    /\ pop(t)
    /\ UNCHANGED <<pushed, lateJobs, thrown, startLog, tqVars, threadVars>>
    /\ UNCHANGED fffVars

NextFifo ==
    \E t \in {Main, 1} :
        \/ \E item \in 1 .. MaxItems : FifoPush(t, item)
        \/ FifoPop(t)

SpecFifo == InitFifo /\ [][NextFifo]_vars

----------------------------------------------------------------------------
(* thread_queue *)

\* thread_queue(num_threads, auto_start), lines 236-237, and the member
\* initialisers of lines 66-80, 158 and 171.
Construct(jobs) ==
    /\ _queue_size = 0
    /\ _first = NULL
    /\ _last = NULL
    /\ heap = [n \in NodeIds |-> FreeNode]
    /\ fifo_lock = NoThread
    /\ _num_threads \in 1 .. MaxLimit
    /\ _current_num_threads = 0
    /\ _auto_start \in BOOLEAN
    /\ _allow_new_jobs = TRUE
    /\ _lock = NoThread
    /\ pc = [t \in Threads |-> IF t = Main THEN "idle" ELSE "unborn"]
    /\ reg = [t \in Threads |-> 0]
    /\ dtor = FALSE
    /\ nextJob = 1
    /\ numJobs = jobs
    /\ crashed = FALSE
    /\ pushed = <<>>
    /\ popped = <<>>
    /\ popThrows = 0
    /\ lateJobs = {}
    /\ thrown = {}
    /\ startLog = NoStart

\* The owner adds at most MaxJobs jobs, itself or through running jobs.
Init == Construct(MaxJobs) /\ NoSearch

\* Where a thread continues when add_job or start returns: the owner in its
\* own code or in the destructor (line 246), a worker in the job that called.
Return(t) == IF t = Main THEN (IF dtor THEN "dt_lock" ELSE "idle") ELSE "run"

\* add_job as it would be if line 262 called _start_all_jobs without
\* testing _auto_start.
add_job_alwaysStarts(t, job) ==
    /\ IF ~_allow_new_jobs
       THEN UNCHANGED <<fifoVars, pushed, pc, lateJobs, startLog>>
       ELSE /\ push(t, job)
            /\ pc' = [pc EXCEPT ![t] = "sa_lock"]
            /\ lateJobs' = IF dtor THEN lateJobs \cup {job} ELSE lateJobs
            /\ startLog' = IF startLog.active THEN [startLog EXCEPT !.pushes = TRUE] ELSE startLog
    /\ nextJob' = nextJob + 1
    /\ numJobs' = numJobs
    /\ UNCHANGED <<tqVars, reg, dtor, crashed, popped, popThrows, thrown>>

\* add_job(job), lines 259-263: the test of _allow_new_jobs, the push, and
\* the test of _auto_start; _start_all_jobs follows at "sa_lock".
add_job(t, job) ==
    /\ IF ~_allow_new_jobs
       THEN UNCHANGED <<fifoVars, pushed, pc, lateJobs, startLog>>
       ELSE /\ push(t, job)
            /\ pc' = [pc EXCEPT ![t] = IF _auto_start THEN "sa_lock" ELSE Return(t)]
            /\ lateJobs' = IF dtor THEN lateJobs \cup {job} ELSE lateJobs
            /\ startLog' = IF startLog.active THEN [startLog EXCEPT !.pushes = TRUE] ELSE startLog
    /\ nextJob' = nextJob + 1
    /\ numJobs' = numJobs
    /\ UNCHANGED <<tqVars, reg, dtor, crashed, popped, popThrows, thrown>>

\* The owner calls add_job with a new job.
AddJob ==
    /\ ~crashed
    /\ pc[Main] = "idle"
    /\ nextJob <= numJobs
    /\ add_job(Main, nextJob)
    /\ UNCHANGED fffVars

\* A running job calls add_job with a new job (line 193: job()).
JobAddsJob(w) ==
    /\ ~crashed
    /\ pc[w] = "run"
    /\ nextJob <= numJobs
    /\ add_job(w, nextJob)
    /\ UNCHANGED fffVars

\* Lines 209-210 and 222-223: pop the head job and start a detached thread
\* that runs its job runner.  An exception of pop leaves the function with
\* the dispatcher lock held.
Dispatch(t, next) ==
    /\ pop(t)
    /\ IF popThrows' = popThrows
       THEN /\ pc' = [pc EXCEPT ![t] = next, ![peek] = "run"]
            /\ crashed' = crashed
       ELSE /\ pc' = [pc EXCEPT ![t] = "threw"]
            /\ crashed' = (t # Main)

\* _start_all_jobs(), lines 219-227: the loop test of line 221, then either
\* lines 222-223 or the unlock of line 226.  At "sa_lock" the thread first
\* takes the dispatcher lock (line 220); at "sa_loop" it holds it.
StartAllTest(t) ==
    IF _current_num_threads < _num_threads /\ size > 0
    THEN /\ Dispatch(t, "sa_inc")
         /\ _lock' = t
         /\ startLog' = IF t = Main /\ startLog.active
                        THEN [startLog EXCEPT !.dispatched = @ + 1] ELSE startLog
         /\ UNCHANGED <<pushed, lateJobs, thrown>>
    ELSE /\ _lock' = NoThread
         /\ pc' = [pc EXCEPT ![t] = Return(t)]
         /\ startLog' = IF t = Main THEN [startLog EXCEPT !.active = FALSE] ELSE startLog
         /\ UNCHANGED <<fifoVars, pushed, popped, popThrows, lateJobs, thrown, crashed>>

StartAllJobs(t) ==
    /\ ~crashed
    /\ \/ pc[t] = "sa_lock" /\ _lock = NoThread
       \/ pc[t] = "sa_loop" /\ _lock = t
    /\ StartAllTest(t)
    /\ UNCHANGED <<_num_threads, _current_num_threads, _auto_start, _allow_new_jobs, reg, dtor, nextJob, numJobs>>
    /\ UNCHANGED fffVars

\* `++_current_num_threads` (lines 211, 224): the read.
IncRead(t) ==
    /\ ~crashed
    /\ pc[t] \in {"sa_inc", "sn_inc"}
    /\ reg' = [reg EXCEPT ![t] = _current_num_threads]
    /\ pc' = [pc EXCEPT ![t] = IF pc[t] = "sa_inc" THEN "sa_inc_w" ELSE "sn_inc_w"]
    /\ UNCHANGED <<fifoVars, tqVars, dtor, nextJob, numJobs, crashed, histVars>>
    /\ UNCHANGED fffVars

\* `++_current_num_threads` (lines 211, 224): the write; in _start_next_job
\* the unlock of line 212 and the end of the thread follow.
IncWrite(t) ==
    /\ ~crashed
    /\ pc[t] \in {"sa_inc_w", "sn_inc_w"}
    /\ _current_num_threads' = SizeInc(reg[t])
    /\ IF pc[t] = "sa_inc_w"
       THEN /\ pc' = [pc EXCEPT ![t] = "sa_loop"]
            /\ _lock' = _lock
       ELSE /\ pc' = [pc EXCEPT ![t] = "done"]
            /\ _lock' = NoThread
    /\ UNCHANGED <<fifoVars, _num_threads, _auto_start, _allow_new_jobs, reg, dtor, nextJob, numJobs, crashed, histVars>>
    /\ UNCHANGED fffVars

\* The job runner, lines 192-194: job() returns and the runner reads
\* _current_num_threads for the decrement, without the dispatcher lock.
JobReturns(w) ==
    /\ ~crashed
    /\ pc[w] = "run"
    /\ reg' = [reg EXCEPT ![w] = _current_num_threads]
    /\ pc' = [pc EXCEPT ![w] = "dec_w"]
    /\ UNCHANGED <<fifoVars, tqVars, dtor, nextJob, numJobs, crashed, histVars>>
    /\ UNCHANGED fffVars

\* The job runner, line 193: job() throws.  Nothing catches the exception
\* in the thread function, so std::terminate ends the process.
JobThrows(w) ==
    /\ ~crashed
    /\ pc[w] = "run"
    /\ crashed' = TRUE
    /\ thrown' = thrown \cup {w}
    /\ UNCHANGED <<fifoVars, tqVars, pc, reg, dtor, nextJob, numJobs, pushed, popped, popThrows, lateJobs, startLog>>
    /\ UNCHANGED fffVars

\* The job runner, line 194: the write of `--_current_num_threads`.
DecWrite(w) ==
    /\ ~crashed
    /\ pc[w] = "dec_w"
    /\ _current_num_threads' = SizeDec(reg[w])
    /\ pc' = [pc EXCEPT ![w] = "sn_lock"]
    /\ startLog' = IF startLog.active THEN [startLog EXCEPT !.decs = TRUE] ELSE startLog
    /\ UNCHANGED <<fifoVars, _num_threads, _auto_start, _allow_new_jobs, _lock, reg, dtor, nextJob, numJobs, crashed>>
    /\ UNCHANGED <<pushed, popped, popThrows, lateJobs, thrown>>
    /\ UNCHANGED fffVars

\* StartNextJob as it would be without the test of line 205.
StartNextJob_noTest(w) ==
    /\ ~crashed
    /\ pc[w] = "sn_lock"
    /\ _lock = NoThread
    /\ Dispatch(w, "sn_inc")
    /\ _lock' = w
    /\ UNCHANGED <<pushed, lateJobs, thrown, startLog>>
    /\ UNCHANGED <<_num_threads, _current_num_threads, _auto_start, _allow_new_jobs, reg, dtor, nextJob, numJobs>>
    /\ UNCHANGED fffVars

\* _start_next_job(), lines 203-210, called by the job runner (line 195).
StartNextJob(w) ==
    /\ ~crashed
    /\ pc[w] = "sn_lock"
    /\ _lock = NoThread
    /\ IF empty
       THEN /\ _lock' = NoThread
            /\ pc' = [pc EXCEPT ![w] = "done"]
            /\ UNCHANGED <<fifoVars, histVars, crashed>>
       ELSE /\ Dispatch(w, "sn_inc")
            /\ _lock' = w
            /\ UNCHANGED <<pushed, lateJobs, thrown, startLog>>
    /\ UNCHANGED <<_num_threads, _current_num_threads, _auto_start, _allow_new_jobs, reg, dtor, nextJob, numJobs>>
    /\ UNCHANGED fffVars

\* start as it would be without the early return of lines 272-275.
start_noCheck(t) ==
    /\ _lock = NoThread
    /\ pc' = [pc EXCEPT ![t] = "sa_lock"]
    /\ _auto_start' = TRUE
    /\ startLog' = IF _auto_start
                   THEN [startLog EXCEPT !.calls = @ + 1]
                   ELSE [calls |-> startLog.calls + 1, active |-> TRUE, buffered |-> size,
                         dispatched |-> 0, pushes |-> FALSE, decs |-> FALSE]
    /\ UNCHANGED <<fifoVars, _num_threads, _current_num_threads, _allow_new_jobs, _lock, reg, nextJob, numJobs, crashed>>
    /\ UNCHANGED <<pushed, popped, popThrows, lateJobs, thrown>>

\* start(), lines 269-280; _start_all_jobs follows at "sa_lock".
start(t) ==
    /\ _lock = NoThread
    /\ IF _auto_start
       THEN /\ pc' = [pc EXCEPT ![t] = Return(t)']
            /\ _auto_start' = _auto_start
            /\ startLog' = [startLog EXCEPT !.calls = @ + 1]
       ELSE /\ pc' = [pc EXCEPT ![t] = "sa_lock"]
            /\ _auto_start' = TRUE
            /\ startLog' = [calls |-> startLog.calls + 1, active |-> TRUE, buffered |-> size,
                             dispatched |-> 0, pushes |-> FALSE, decs |-> FALSE]
    /\ UNCHANGED <<fifoVars, _num_threads, _current_num_threads, _allow_new_jobs, _lock, reg, nextJob, numJobs, crashed>>
    /\ UNCHANGED <<pushed, popped, popThrows, lateJobs, thrown>>

\* The owner calls start().
Start ==
    /\ ~crashed
    /\ pc[Main] = "idle"
    /\ startLog.calls < MaxStarts
    /\ dtor' = dtor
    /\ start(Main)
    /\ UNCHANGED fffVars

\* ~thread_queue(), line 244: the owner's queue goes out of scope and the
\* destructor calls start().
Destructor ==
    /\ ~crashed
    /\ pc[Main] = "idle"
    /\ dtor' = TRUE
    /\ start(Main)
    /\ UNCHANGED fffVars

\* ~thread_queue(), lines 246-250: with the dispatcher lock held, the first
\* operand of the loop test, !_jobs.empty().  When it is true the loop body
\* releases and retakes the lock, which changes nothing.
DtorTestEmpty ==
    /\ ~crashed
    /\ pc[Main] = "dt_lock"
    /\ _lock = NoThread
    /\ empty
    /\ _lock' = Main
    /\ pc' = [pc EXCEPT ![Main] = "dt_count"]
    /\ UNCHANGED <<fifoVars, _num_threads, _current_num_threads, _auto_start, _allow_new_jobs, reg, dtor, nextJob, numJobs, crashed, histVars>>
    /\ UNCHANGED fffVars

\* ~thread_queue(), lines 247-251: the second operand of the loop test,
\* _current_num_threads > 0; the loop goes on, or the destructor returns.
DtorTestCount ==
    /\ ~crashed
    /\ pc[Main] = "dt_count"
    /\ _lock' = NoThread
    /\ pc' = [pc EXCEPT ![Main] = IF _current_num_threads > 0 THEN "dt_lock" ELSE "destroyed"]
    /\ UNCHANGED <<fifoVars, _num_threads, _current_num_threads, _auto_start, _allow_new_jobs, reg, dtor, nextJob, numJobs, crashed, histVars>>
    /\ UNCHANGED fffVars

Next ==
    \/ AddJob
    \/ Start
    \/ Destructor
    \/ DtorTestEmpty
    \/ DtorTestCount
    \/ \E t \in Threads : StartAllJobs(t) \/ IncRead(t) \/ IncWrite(t)
    \/ \E w \in Workers : JobAddsJob(w) \/ JobReturns(w) \/ JobThrows(w) \/ DecWrite(w) \/ StartNextJob(w)

Spec == Init /\ [][Next]_vars

----------------------------------------------------------------------------
(* Derived state *)

\* Worker w is executing its job: between the start of job() and its return,
\* calls of add_job made by the job included.
Executing(w) == pc[w] \in {"run", "sa_lock", "sa_loop", "sa_inc", "sa_inc_w"}

\* The job of worker w has been dispatched / has finished executing.
Dispatched(w) == pc[w] # "unborn"
Finished(w) == pc[w] \in {"dec_w", "sn_lock", "sn_inc", "sn_inc_w", "done"}

NumExecuting == Cardinality({w \in Workers : Executing(w)})

\* The jobs passed to add_job so far.
Added == 1 .. (nextJob - 1)

----------------------------------------------------------------------------
(* Claims *)

\* C1: with limit N >= 1, the number of jobs executing at the same time
\* never exceeds N, and neither does the value of _current_num_threads (read
\* when no thread holds the dispatcher lock, so that a dispatch in progress
\* is not taken for a violation).
C1_BoundedConcurrency ==
    /\ NumExecuting <= _num_threads
    /\ _lock = NoThread => _current_num_threads <= _num_threads

\* C2: the destructor returns only after every job ever passed to add_job,
\* jobs added by running jobs included, has finished executing.
C2_DrainWaitsForAllJobs ==
    pc[Main] = "destroyed" => \A j \in Added : Finished(j)

\* C3: when the destructor returns, every worker has performed both its
\* decrement of _current_num_threads and its _start_next_job call, so none
\* has a step left that touches the dispatcher.
C3_NoWorkerLeftAtReturn ==
    pc[Main] = "destroyed" => \A w \in Workers : Dispatched(w) => pc[w] = "done"

\* C4: as long as pop is never called on an empty queue, the items returned
\* by pop are the pushed items in push order, each once, and the queue holds
\* exactly the items pushed and not yet popped, in push order.
C4_FifoOrder ==
    popThrows = 0 =>
        /\ Len(popped) <= Len(pushed)
        /\ popped = SubSeq(pushed, 1, Len(popped))
        /\ Contents = SubSeq(pushed, Len(popped) + 1, Len(pushed))

\* C4 witness: three pops have returned items, none on an empty queue, items
\* of different value among them, and the queue holds another item.
C4_Witness ==
    /\ popThrows = 0
    /\ Len(popped) = 3
    /\ popped[1] # popped[2]
    /\ Contents # <<>>

\* C5: size() is the number of pushes minus the number of successful pops,
\* and empty() holds exactly when that is zero, also after a pop on an empty
\* queue.
C5_SizeIsPushesMinusPops ==
    /\ size = Len(pushed) - Len(popped)
    /\ empty <=> (Len(pushed) = Len(popped))

\* C6: a pop on an empty queue reports an error and leaves the queue as it
\* was: contents and size unchanged, lock released.
C6_PopOnEmptyKeepsQueueUsable ==
    [][popThrows' # popThrows =>
        /\ Contents' = Contents
        /\ size' = size
        /\ fifo_lock' = NoThread]_vars

\* C7: a job that throws is caught at the worker boundary: its runner goes on
\* to the decrement of _current_num_threads and to _start_next_job.
C7_ThrowCaughtAtWorkerBoundary ==
    \A w \in thrown : Finished(w) /\ ~crashed

\* C8: once the destructor has begun, add_job enqueues nothing.
C8_NoJobAcceptedAfterShutdown ==
    lateJobs = {}

----------------------------------------------------------------------------
(* The dispatcher with at most MaxBuffered jobs added. *)

InitBuffered == Construct(MaxBuffered) /\ NoSearch

SpecBuffered == InitBuffered /\ [][Next]_vars

\* C9: while _auto_start is false (constructed with auto_start = false, and
\* neither start() nor the destructor called), every add_job has only
\* buffered its job: the queue holds every job added, in order, its size is
\* their number, no worker has been started and the owner is not in
\* _start_all_jobs.
C9_AddJobBuffersBeforeStart ==
    ~_auto_start =>
        /\ size = nextJob - 1
        /\ Contents = [i \in 1 .. (nextJob - 1) |-> i]
        /\ \A w \in Workers : pc[w] = "unborn"
        /\ _current_num_threads = 0
        /\ pc[Main] = "idle"

\* C9 witness: two jobs are buffered and nothing has been started.
C9_Witness ==
    /\ ~_auto_start
    /\ size = 2
    /\ pc[Main] = "idle"

Min(a, b) == IF a < b THEN a ELSE b

\* A call of start() that finds _auto_start set changes nothing and
\* dispatches nothing.
LaterStartChangesNothing ==
    (startLog'.calls # startLog.calls /\ _auto_start) =>
        /\ UNCHANGED <<fifoVars, tqVars, reg, pushed, popped>>
        /\ \A w \in Workers : pc'[w] = pc[w]
        /\ pc'[Main] = Return(Main)'
        /\ startLog' = [startLog EXCEPT !.calls = @ + 1]

\* C10 as stated: start() is idempotent; the first call switches to
\* admitting and dispatches min(limit, number of buffered jobs) jobs; a later
\* call changes no state and dispatches nothing.  The number is tested in
\* the calls during which no job runner wrote _current_num_threads, so that
\* the unlocked decrement of line 194 plays no part in it.
C10_StartDispatchesMin ==
    [][/\ LaterStartChangesNothing
       /\ (startLog.active /\ ~startLog'.active /\ ~startLog.decs) =>
              startLog.dispatched = Min(_num_threads, startLog.buffered)]_vars

\* C10 amended: the first call sets _auto_start and runs _start_all_jobs,
\* which dispatches a job only when it reads _current_num_threads < limit
\* and a non-empty queue; it has dispatched min(limit, buffered) jobs when it
\* returns if no job called add_job or finished during the call; a later
\* call changes no state and dispatches nothing.
C10_StartIdempotent ==
    [][/\ LaterStartChangesNothing
       /\ (startLog'.calls # startLog.calls /\ ~_auto_start) =>
              _auto_start' /\ pc'[Main] = "sa_lock" /\ startLog'.active
       /\ (startLog.active /\ startLog'.dispatched # startLog.dispatched) =>
              _current_num_threads < _num_threads /\ size > 0
       /\ (startLog.active /\ ~startLog'.active /\ ~startLog.pushes /\ ~startLog.decs) =>
              startLog.dispatched = Min(_num_threads, startLog.buffered)]_vars

\* C10 witness: the first call of start() found two jobs buffered with limit
\* 2 and dispatched both, and start() has been called again since.
C10_Witness ==
    /\ startLog.calls >= 2
    /\ ~startLog.active
    /\ ~startLog.pushes
    /\ ~startLog.decs
    /\ startLog.buffered = 2
    /\ startLog.dispatched = 2
    /\ _num_threads = 2

----------------------------------------------------------------------------
(* Order of dispatch and the running-job counter (thread_queue.hpp        *)
(* lines 191-227).                                                         *)

\* C12: jobs are handed to workers in the order they were added: job ids are
\* given in the order the add_job calls push, so a later job has a worker
\* thread only if every earlier job has one, and the pops follow the ids.
C12_DispatchInAddOrder ==
    /\ \A a, b \in Workers : (a < b /\ Dispatched(b)) => Dispatched(a)
    /\ \A i \in 1 .. Len(popped) : popped[i] = i

\* Two jobs were buffered together, the limit is one, and both were handed
\* out one after the other.
C12_Witness ==
    /\ _num_threads = 1
    /\ startLog.buffered = 2
    /\ popped = <<1, 2>>

\* The thread that has popped a job and created its worker thread
\* (lines 209-210, 222-223) but has not yet completed the increment of
\* lines 211, 224.
IncrementPending(t) == pc[t] \in {"sa_inc", "sa_inc_w", "sn_inc", "sn_inc_w"}

\* C13: _current_num_threads is incremented for a job before the job begins
\* to execute: while the increment for the job popped last is still pending,
\* that job has not run to its end.
C13_CountedBeforeRunning ==
    \A t \in Threads :
        (IncrementPending(t) /\ Len(popped) > 0) => ~Finished(popped[Len(popped)])

----------------------------------------------------------------------------
(* fff: the selection of the pattern, main lines 288-316.                  *)

\* The texts an option can carry.
ArgTexts == {<<"x">>, <<"a", "*">>}

\* A thread_queue that is constructed and never used.
NoQueue ==
    /\ Construct(0)
    /\ _num_threads = 1
    /\ _auto_start = FALSE

\* main is entered with any subset of the four pattern options given.
InitArgs ==
    /\ NoQueue
    /\ args \in [1 .. 4 -> {NoArg} \cup {<<text>> : text \in ArgTexts}]
    /\ NoOptions
    /\ SearchDefaults

\* The regex the switch of lines 293-314 builds for pattern_str[i].
compile(i, text) ==
    CASE i = 1 -> regex(text, FALSE)
      [] i = 2 -> regex(text, TRUE)
      [] i = 3 -> regex(wild_to_regex(text), FALSE)
      [] OTHER -> regex(wild_to_regex(text), TRUE)

\* One iteration of the loop of line 291: `break` leaves the switch, and
\* the loop goes on to the next name.
SelectPattern ==
    /\ fpc[Main] = "none"
    /\ index < 4
    /\ pattern' = IF Len(args[index + 1]) > 0 THEN compile(index + 1, args[index + 1][1]) ELSE pattern
    /\ index' = index + 1
    /\ UNCHANGED <<args, options, operands, search_type, min_depth, max_depth, num_threads>>
    /\ UNCHANGED <<sharedVars, runVars, logVars>>
    /\ UNCHANGED <<fifoVars, tqVars, threadVars, histVars>>

NextArgs == SelectPattern

SpecArgs == InitArgs /\ [][NextArgs]_vars

\* The options given, and the first of them in the order regex, iregex,
\* name, iname.
Given == {i \in 1 .. 4 : Len(args[i]) > 0}
FirstGiven == CHOOSE i \in Given : \A j \in Given : i <= j

\* C20: when several of -regex, -iregex, -name, -iname are given, the pattern
\* used is the one of the first given in the order regex, iregex, name,
\* iname.
C20_PatternPrecedence ==
    (index = 4 /\ Given # {}) => pattern = compile(FirstGiven, args[FirstGiven][1])

----------------------------------------------------------------------------
(* fff: the search, main lines 373-411 and examine_place lines 117-201.    *)
(*                                                                         *)
(* Granularity.  A step is one access to places_queue, searched,           *)
(* thread_counter or a place object, or one acquisition of a mutex that is *)
(* then held across other steps.  A critical section that is entered and   *)
(* left with nothing but its own data touched (the output sections, lines  *)
(* 387-389) is one step, enabled when its mutex is free.                   *)
(*                                                                         *)
(* Both spawning loops pass std::cref of a loop-local place (lines 392,    *)
(* 192) to a detached thread: the object is destroyed at the end of the    *)
(* iteration and the next iteration builds its place in the same storage.  *)
(* A thread's read of current_place is a read of `slot` of the frame that  *)
(* spawned it, as it is at the time of the read, or ends the process (the  *)
(* storage has been freed or reused).                                      *)

\* A node of std::list<place>: `id` stands for its address.
list_node(id, pl) == [id |-> id, path |-> pl.path, depth |-> pl.depth]

\* The record of one emplace_back: the place, the place whose directory
\* held it (NoPlace for a root) and how many times its path has been given
\* to emplace_back so far.
Times(path, log) == Cardinality({r \in log : r.path = path})
Logged(log, pl, dir) == log \cup {[path |-> pl.path, depth |-> pl.depth, parent |-> dir, n |-> Times(pl.path, log) + 1]}

\* Lines 374-378: every remaining argument is appended to places_queue with
\* depth 0 and added to searched.
RECURSIVE enqueue_roots(_, _)
enqueue_roots(roots, log) ==
    IF roots = <<>> THEN log
    ELSE enqueue_roots(Tail(roots), Logged(log, place(Head(roots), 0), NoPlace))

\* The state when the search begins (line 380), for the given choices of
\* roots, -j, (min_depth, max_depth), -type and pattern.
BeginSearch(rootLists, threadCounts, depthPairs, types, patterns) ==
    /\ NoQueue
    /\ args = [o \in 1 .. 4 |-> NoArg]
    /\ index = 4
    /\ pattern \in patterns
    /\ search_type \in types
    /\ \E d \in depthPairs : min_depth = d[1] /\ max_depth = d[2]
    /\ num_threads \in threadCounts
    /\ options = [o \in option_str |-> NoArg]
    /\ \E roots \in rootLists :
          /\ operands = roots
          /\ places_queue = [i \in 1 .. Len(roots) |-> list_node(i, place(roots[i], 0))]
          /\ searched = {roots[i] : i \in 1 .. Len(roots)}
          /\ nodes = Len(roots)
          /\ queued = enqueue_roots(roots, {})
    /\ thread_counter = 0
    /\ output_lock = NoThread
    /\ places_queue_lock = NoThread
    /\ thread_counter_lock = NoThread
    /\ thread_id = 0
    /\ fpc = [t \in Frames |-> IF t = Main THEN "lock_pq" ELSE "none"]
    /\ slot = [t \in Frames |-> NoPlace]
    /\ frame = [t \in Examiners |-> NoFrame]
    /\ spawned = 0
    /\ aborted = FALSE
    /\ out = [l \in Lines |-> 0]
    /\ err = {}
    /\ matches = {}

\* The process is running: it has not ended abnormally and main has not
\* returned.
Running == ~aborted /\ fpc[Main] # "returned"

\* What leaves the thread_queue and the argument variables alone.
SearchStep == UNCHANGED <<fifoVars, tqVars, threadVars, histVars, argVars, paramVars>>

\* std::thread(examine_place, std::cref(p), ...).detach() by thread t, lines
\* 191-196 and 391-396, with p the place object of t's loop.
spawn(t) ==
    /\ spawned < MaxSpawned
    /\ spawned' = spawned + 1
    /\ frame' = [frame EXCEPT ![spawned + 1] = [NoFrame EXCEPT !.ref = t]]

\* Line 381.
MainLockQueue ==
    /\ Running
    /\ fpc[Main] = "lock_pq"
    /\ places_queue_lock = NoThread
    /\ places_queue_lock' = Main
    /\ fpc' = [fpc EXCEPT ![Main] = "loop"]
    /\ UNCHANGED <<places_queue, searched, thread_counter, output_lock, thread_counter_lock>>
    /\ UNCHANGED <<thread_id, slot, frame, spawned, nodes, aborted, logVars>>
    /\ SearchStep

\* Lines 382-385: the loop test, then current_place is built from the
\* front of the queue; or the loop ends and line 399 unlocks.
MainLoop ==
    /\ Running
    /\ fpc[Main] = "loop"
    /\ IF thread_id < num_threads /\ places_queue # <<>>
       THEN /\ slot' = [slot EXCEPT ![Main] = place(Head(places_queue).path, Head(places_queue).depth)]
            /\ places_queue' = Tail(places_queue)
            /\ fpc' = [fpc EXCEPT ![Main] = "count"]
            /\ places_queue_lock' = places_queue_lock
       ELSE /\ places_queue_lock' = NoThread
            /\ fpc' = [fpc EXCEPT ![Main] = "wait"]
            /\ UNCHANGED <<slot, places_queue>>
    /\ UNCHANGED <<searched, thread_counter, output_lock, thread_counter_lock>>
    /\ UNCHANGED <<thread_id, frame, spawned, nodes, aborted, logVars>>
    /\ SearchStep

\* Lines 387-389, with places_queue_lock still held.
MainCount ==
    /\ Running
    /\ fpc[Main] = "count"
    /\ thread_counter_lock = NoThread
    /\ thread_counter' = SizeInc(thread_counter)
    /\ fpc' = [fpc EXCEPT ![Main] = "spawn"]
    /\ UNCHANGED <<places_queue, searched, output_lock, places_queue_lock, thread_counter_lock>>
    /\ UNCHANGED <<thread_id, slot, frame, spawned, nodes, aborted, logVars>>
    /\ SearchStep

\* Lines 391-397 and the end of the iteration.
MainSpawn ==
    /\ Running
    /\ fpc[Main] = "spawn"
    /\ spawn(Main)
    /\ fpc' = [fpc EXCEPT ![Main] = "loop", ![spawned + 1] = "announce"]
    /\ thread_id' = thread_id + 1
    /\ UNCHANGED <<sharedVars, slot, nodes, aborted, logVars>>
    /\ SearchStep

\* MainWait as it would be if main left the loop of line 405 without
\* reading thread_counter.
MainWait_noTest ==
    /\ Running
    /\ fpc[Main] = "wait"
    /\ thread_counter_lock = NoThread
    /\ fpc' = [fpc EXCEPT ![Main] = "returned"]
    /\ UNCHANGED <<sharedVars, thread_id, slot, frame, spawned, nodes, aborted, logVars>>
    /\ SearchStep

\* Lines 401-411: main leaves the wait loop, and returns 0, when it reads
\* thread_counter as 0 under thread_counter_lock.
MainWait ==
    /\ Running
    /\ fpc[Main] = "wait"
    /\ thread_counter_lock = NoThread
    /\ thread_counter = 0
    /\ fpc' = [fpc EXCEPT ![Main] = "returned"]
    /\ UNCHANGED <<sharedVars, thread_id, slot, frame, spawned, nodes, aborted, logVars>>
    /\ SearchStep

\* What a thread reads as current_place.
current_place(w) == slot[frame[w].ref]

\* `std::cout << text << std::endl` under output_lock, by the statement of
\* line `stmt`.
cout(text, stmt) ==
    /\ output_lock = NoThread
    /\ out' = [out EXCEPT ![<<text, stmt>>] = @ + 1]

\* Lines 124-126.
Announce(w) ==
    /\ Running
    /\ fpc[w] = "announce"
    /\ cout(current_place(w).path, 125)
    /\ fpc' = [fpc EXCEPT ![w] = "classify"]
    /\ UNCHANGED <<sharedVars, thread_id, slot, frame, spawned, nodes, aborted, err, queued, matches>>
    /\ SearchStep

\* Lines 129-130, and lines 173-178 when is_directory throws.
Classify(w) ==
    /\ Running
    /\ fpc[w] = "classify"
    /\ \/ /\ frame' = [frame EXCEPT ![w].is_directory = is_directory(current_place(w).path)]
          /\ fpc' = [fpc EXCEPT ![w] = "depth"]
          /\ err' = err
       \/ /\ current_place(w).path \in Unreadable
          /\ output_lock = NoThread
          /\ err' = err \cup {current_place(w).path}
          /\ fpc' = [fpc EXCEPT ![w] = "lock_tc"]
          /\ frame' = frame
    /\ UNCHANGED <<sharedVars, thread_id, slot, spawned, nodes, aborted, out, queued, matches>>
    /\ SearchStep

\* Line 133.
TestDepth(w) ==
    /\ Running
    /\ fpc[w] = "depth"
    /\ fpc' = [fpc EXCEPT ![w] = IF frame[w].is_directory /\ current_place(w).depth < max_depth
                                 THEN "open" ELSE "min"]
    /\ UNCHANGED <<sharedVars, thread_id, slot, frame, spawned, nodes, aborted, logVars>>
    /\ SearchStep

\* Lines 135-136: the directory_iterator is built; it throws when the path
\* cannot be read or is not a directory (lines 173-178).
Open(w) ==
    /\ Running
    /\ fpc[w] = "open"
    /\ \/ /\ is_directory(current_place(w).path)
          /\ frame' = [frame EXCEPT ![w].it = Entries(current_place(w).path), ![w].dir = current_place(w)]
          /\ fpc' = [fpc EXCEPT ![w] = "entry"]
          /\ err' = err
       \/ /\ current_place(w).path \in Unreadable \/ ~is_directory(current_place(w).path)
          /\ output_lock = NoThread
          /\ err' = err \cup {current_place(w).path}
          /\ fpc' = [fpc EXCEPT ![w] = "lock_tc"]
          /\ frame' = frame
    /\ UNCHANGED <<sharedVars, thread_id, slot, spawned, nodes, aborted, out, queued, matches>>
    /\ SearchStep

\* Lines 136-142: the next entry, the test of line 138, new_place, and the
\* first half of emplace_back, which finds the last node of the list.  No
\* mutex is held.
Entry(w) ==
    /\ Running
    /\ fpc[w] = "entry"
    /\ IF frame[w].it = <<>>
       THEN /\ fpc' = [fpc EXCEPT ![w] = "min"]
            /\ frame' = frame
       ELSE IF Head(frame[w].it) \in searched
       THEN /\ frame' = [frame EXCEPT ![w].it = Tail(@)]
            /\ fpc' = fpc
       ELSE /\ frame' = [frame EXCEPT ![w].new_place = place(Head(frame[w].it), SizeInc(current_place(w).depth)),
                                       ![w].tail = IF places_queue = <<>> THEN NULL
                                                   ELSE places_queue[Len(places_queue)].id]
            /\ fpc' = [fpc EXCEPT ![w] = "link"]
    /\ UNCHANGED <<sharedVars, thread_id, slot, spawned, nodes, aborted, logVars>>
    /\ SearchStep

\* The list after a node is hooked in behind the node `tail` (NULL: behind
\* the list head): what followed `tail` is cut off, and a hook behind a node
\* that has been popped and freed leaves the list as it is.
hook(list, tail, node) ==
    IF tail = NULL THEN <<node>>
    ELSE IF \E i \in 1 .. Len(list) : list[i].id = tail
    THEN SubSeq(list, 1, CHOOSE i \in 1 .. Len(list) : list[i].id = tail) \o <<node>>
    ELSE list

\* Lines 142-143: the second half of emplace_back, and searched.insert.
\* A write to a freed node may also end the process.
Link(w) ==
    /\ Running
    /\ fpc[w] = "link"
    /\ places_queue' = hook(places_queue, frame[w].tail, list_node(nodes + 1, frame[w].new_place))
    /\ nodes' = nodes + 1
    /\ searched' = searched \cup {frame[w].new_place.path}
    /\ queued' = Logged(queued, frame[w].new_place, frame[w].dir)
    /\ frame' = [frame EXCEPT ![w].it = Tail(@)]
    /\ fpc' = [fpc EXCEPT ![w] = "entry"]
    /\ IF places_queue' = places_queue THEN aborted' \in BOOLEAN ELSE aborted' = FALSE
    /\ UNCHANGED <<thread_counter, output_lock, places_queue_lock, thread_counter_lock>>
    /\ UNCHANGED <<thread_id, slot, spawned, out, err, matches>>
    /\ SearchStep

\* TestMin as it would be without the test of line 153.
TestMin_noTest(w) ==
    /\ Running
    /\ fpc[w] = "min"
    /\ cout("1", 148)
    /\ fpc' = [fpc EXCEPT ![w] = "type"]
    /\ frame' = [frame EXCEPT ![w].seen = current_place(w).depth]
    /\ UNCHANGED <<sharedVars, thread_id, slot, spawned, nodes, aborted, err, queued, matches>>
    /\ SearchStep

\* Lines 147-153: the line "1", then the test of min_depth, whose `return`
\* leaves examine_place at once: lines 180-200 are not executed.
TestMin(w) ==
    /\ Running
    /\ fpc[w] = "min"
    /\ cout("1", 148)
    /\ fpc' = [fpc EXCEPT ![w] = IF current_place(w).depth < min_depth THEN "returned" ELSE "type"]
    /\ frame' = [frame EXCEPT ![w].seen = current_place(w).depth]
    /\ UNCHANGED <<sharedVars, thread_id, slot, spawned, nodes, aborted, err, queued, matches>>
    /\ SearchStep

\* Lines 155-162: the line "2", then the type filter, whose `return` leaves
\* examine_place at once as well.
TestType(w) ==
    /\ Running
    /\ fpc[w] = "type"
    /\ cout("2", 156)
    /\ fpc' = [fpc EXCEPT ![w] =
                  IF \/ search_type = "directory" /\ ~frame[w].is_directory
                     \/ search_type = "file" /\ frame[w].is_directory
                  THEN "returned" ELSE "name"]
    /\ UNCHANGED <<sharedVars, thread_id, slot, frame, spawned, nodes, aborted, err, queued, matches>>
    /\ SearchStep

\* Lines 165-167.
Match(w) ==
    /\ Running
    /\ fpc[w] = "name"
    /\ fpc' = [fpc EXCEPT ![w] = IF regex_match(filename(current_place(w).path), pattern)
                                 THEN "emit" ELSE "lock_tc"]
    /\ UNCHANGED <<sharedVars, thread_id, slot, frame, spawned, nodes, aborted, logVars>>
    /\ SearchStep

\* Lines 168-171.
Emit(w) ==
    /\ Running
    /\ fpc[w] = "emit"
    /\ cout(current_place(w).path, 170)
    /\ matches' = matches \cup {place(current_place(w).path, frame[w].seen)}
    /\ fpc' = [fpc EXCEPT ![w] = "lock_tc"]
    /\ UNCHANGED <<sharedVars, thread_id, slot, frame, spawned, nodes, aborted, err, queued>>
    /\ SearchStep

\* Line 180.
LockCounter(w) ==
    /\ Running
    /\ fpc[w] = "lock_tc"
    /\ thread_counter_lock = NoThread
    /\ thread_counter_lock' = w
    /\ fpc' = [fpc EXCEPT ![w] = "lock_pq"]
    /\ UNCHANGED <<places_queue, searched, thread_counter, output_lock, places_queue_lock>>
    /\ UNCHANGED <<thread_id, slot, frame, spawned, nodes, aborted, logVars>>
    /\ SearchStep

\* Lines 181-182, with thread_counter_lock held.
LockQueue(w) ==
    /\ Running
    /\ fpc[w] = "lock_pq"
    /\ places_queue_lock = NoThread
    /\ places_queue_lock' = w
    /\ thread_counter' = SizeDec(thread_counter)
    /\ fpc' = [fpc EXCEPT ![w] = "loop"]
    /\ UNCHANGED <<places_queue, searched, output_lock, thread_counter_lock>>
    /\ UNCHANGED <<thread_id, slot, frame, spawned, nodes, aborted, logVars>>
    /\ SearchStep

\* Loop as it would be if line 184 did not test thread_counter.
Loop_noLimit(w) ==
    /\ Running
    /\ fpc[w] = "loop"
    /\ IF places_queue # <<>>
       THEN /\ slot' = [slot EXCEPT ![w] = place(Head(places_queue).path, Head(places_queue).depth)]
            /\ places_queue' = Tail(places_queue)
            /\ thread_counter' = SizeInc(thread_counter)
            /\ spawn(w)
            /\ fpc' = [fpc EXCEPT ![spawned + 1] = "announce"]
            /\ UNCHANGED <<places_queue_lock, thread_counter_lock>>
       ELSE /\ places_queue_lock' = NoThread
            /\ thread_counter_lock' = NoThread
            /\ fpc' = [fpc EXCEPT ![w] = "returned"]
            /\ UNCHANGED <<slot, places_queue, thread_counter, spawned, frame>>
    /\ UNCHANGED <<searched, output_lock, thread_id, nodes, aborted, logVars>>
    /\ SearchStep

\* Lines 184-200: one iteration of the loop that starts the next places, or
\* its end, the two unlocks and the end of the thread.
Loop(w) ==
    /\ Running
    /\ fpc[w] = "loop"
    /\ IF thread_counter < num_threads /\ places_queue # <<>>
       THEN /\ slot' = [slot EXCEPT ![w] = place(Head(places_queue).path, Head(places_queue).depth)]
            /\ places_queue' = Tail(places_queue)
            /\ thread_counter' = SizeInc(thread_counter)
            /\ spawn(w)
            /\ fpc' = [fpc EXCEPT ![spawned + 1] = "announce"]
            /\ UNCHANGED <<places_queue_lock, thread_counter_lock>>
       ELSE /\ places_queue_lock' = NoThread
            /\ thread_counter_lock' = NoThread
            /\ fpc' = [fpc EXCEPT ![w] = "returned"]
            /\ UNCHANGED <<slot, places_queue, thread_counter, spawned, frame>>
    /\ UNCHANGED <<searched, output_lock, thread_id, nodes, aborted, logVars>>
    /\ SearchStep

\* A read of current_place (lines 125, 129, 133, 135, 141, 153, 166, 170)
\* after the place object has been destroyed finds its storage freed or
\* reused, and the process ends.
DanglingRead(w) ==
    /\ Running
    /\ fpc[w] \in {"announce", "classify", "depth", "open", "entry", "min", "name", "emit"}
    /\ aborted' = TRUE
    /\ UNCHANGED <<sharedVars, thread_id, fpc, slot, frame, spawned, nodes, logVars>>
    /\ SearchStep

NextSearch ==
    \/ MainLockQueue
    \/ MainLoop
    \/ MainCount
    \/ MainSpawn
    \/ MainWait
    \/ \E w \in Examiners :
          \/ Announce(w)
          \/ Classify(w)
          \/ TestDepth(w)
          \/ Open(w)
          \/ Entry(w)
          \/ Link(w)
          \/ TestMin(w)
          \/ TestType(w)
          \/ Match(w)
          \/ Emit(w)
          \/ LockCounter(w)
          \/ LockQueue(w)
          \/ Loop(w)
          \/ DanglingRead(w)

\* The command lines of the search: root r alone or with a second root, -j
\* from 1 to MaxThreads, every valid pair of depths up to MaxDepth or with
\* no -maxdepth, every -type, and the default pattern or -regex x.
RootLists == {<<"r">>} \cup {<<"r", b>> : b \in {"r", "r/a"}}
DepthPairs == {d \in (0 .. MaxDepth) \X ((0 .. MaxDepth) \cup {UintMax}) : d[1] <= d[2]}
Types == {"file", "directory", "any"}
Patterns == {regex(<<".", "*">>, FALSE), regex(<<"x">>, FALSE)}

InitSearch == BeginSearch(RootLists, 1 .. MaxThreads, DepthPairs, Types, Patterns)

SpecSearch == InitSearch /\ [][NextSearch]_vars

----------------------------------------------------------------------------
(* Properties of the search.                                               *)

\* The mutexes a thread holds.
Held(t) ==
    {m \in {"output_lock", "places_queue_lock", "thread_counter_lock"} :
        \/ m = "output_lock" /\ output_lock = t
        \/ m = "places_queue_lock" /\ places_queue_lock = t
        \/ m = "thread_counter_lock" /\ thread_counter_lock = t}

\* C11: no thread acquires one lock while it holds another; in fff
\* places_queue_lock, thread_counter_lock and output_lock are never held
\* together.
C11_NoLockHeldWithAnother == \A t \in Frames : Cardinality(Held(t)) <= 1

\* The run is over: the process has not ended abnormally and no thread can
\* take a step that changes anything (main has returned, or every thread
\* has ended, waits for a mutex, or spins in the loop of line 401).
SearchOver == ~aborted /\ ~ENABLED NextSearch

\* C14: the search terminates: a run that is over has left main's wait loop
\* and returned.
C14_SearchTerminates == SearchOver => fpc[Main] = "returned"

\* C15: no path is placed on places_queue more than once.
C15_QueuedOnce == \A r \in queued : r.n = 1

\* C16: every root has depth 0, every queued child has the depth of the place
\* whose directory held it plus one, and no place with a depth greater than
\* max_depth is placed on the queue.
C16_Depths ==
    \A r \in queued :
        /\ r.parent = NoPlace => r.depth = 0
        /\ r.parent # NoPlace => r.depth = r.parent.depth + 1
        /\ r.depth <= max_depth

\* The searches of roots r and r/a with no -type: r/a may fail to be read.
InitMinDepth == BeginSearch({<<"r", "r/a">>}, 1 .. MaxThreads, DepthPairs, {"any"}, Patterns)

SpecMinDepth == InitMinDepth /\ [][NextSearch]_vars

Stdout(path) == out[<<path, 125>>] + out[<<path, 170>>]
Qualifies(path) ==
    /\ \E r \in queued : r.path = path /\ r.depth >= min_depth
    /\ \/ search_type = "any"
       \/ search_type = "directory" /\ is_directory(path)
       \/ search_type = "file" /\ ~is_directory(path)
    /\ regex_match(filename(path), pattern)

\* C18: a line is written to stdout only for a place that satisfies depth,
\* type filter and pattern, each such path once (exactly once when main has
\* returned), and nothing else is written.
C18_OnlyMatchesOnStdout ==
    /\ out[<<"1", 148>>] = 0
    /\ out[<<"2", 156>>] = 0
    /\ \A path \in Paths :
          /\ Stdout(path) <= 1
          /\ Stdout(path) = 1 => Qualifies(path)
          /\ (fpc[Main] = "returned" /\ Qualifies(path)) => Stdout(path) = 1

\* C19: when classifying or enumerating a place has failed, the error is
\* reported for that place, and at the end of the run every place that was
\* queued has been examined (examine_place has run for it).
C19_ErrorLeavesTheRestExamined ==
    /\ err \subseteq Paths
    /\ (err # {} /\ SearchOver) => \A r \in queued : out[<<r.path, 125>>] > 0

----------------------------------------------------------------------------
(* fff: the options read after the pattern, main lines 318-378.            *)

\* std::stoi, lines 336, 339 and 348: an optional sign and the leading
\* decimal digits of the text; it throws std::invalid_argument when no digit
\* follows the sign and std::out_of_range when the value is no int.  An int
\* has the width of an unsigned int.
Digits == <<"0", "1", "2", "3", "4", "5", "6", "7", "8", "9">>
IsDigit(c) == \E d \in 1 .. 10 : Digits[d] = c
digit(c) == (CHOOSE d \in 1 .. 10 : Digits[d] = c) - 1

RECURSIVE strtol(_, _)
strtol(text, acc) ==
    IF text = <<>> \/ ~IsDigit(Head(text)) THEN acc
    ELSE strtol(Tail(text), 10 * acc + digit(Head(text)))

IntMax == 2 ^ (Width - 1) - 1

stoi(text) ==
    LET signed == text # <<>> /\ Head(text) \in {"-", "+"}
        body == IF signed THEN Tail(text) ELSE text
        n == IF signed /\ Head(text) = "-" THEN 0 - strtol(body, 0) ELSE strtol(body, 0)
    IN  IF body = <<>> \/ ~IsDigit(Head(body)) THEN [throws |-> TRUE, value |-> 0]
        ELSE IF n > IntMax \/ n < 0 - IntMax - 1 THEN [throws |-> TRUE, value |-> 0]
        ELSE [throws |-> FALSE, value |-> n]

\* The conversion of an int to unsigned int in the assignments of lines 336,
\* 339 and 348.
unsigned_int(n) == n % SizeMod

\* Whether option o was given (args[o] > 0) and its value (args(o)): the
\* text given with it, or the empty text.
given(o) == Len(options[o]) > 0
value(o) == IF given(o) THEN options[o][1] ELSE <<>>

\* The value an option that is read with std::stoi leaves in a variable, and
\* whether reading it throws.
parsed(o, default) == IF given(o) THEN unsigned_int(stoi(value(o)).value) ELSE default
throws(o) == given(o) /\ stoi(value(o)).throws

\* exit(code), lines 330, 343, 352 and 370.
exit(code) == fpc' = [fpc EXCEPT ![Main] = IF code = 0 THEN "exit_0" ELSE "exit_1"]

\* What leaves the thread_queue and the command line alone.
ConfigStep == UNCHANGED <<fifoVars, tqVars, threadVars, histVars, argVars>>

\* The texts of line 321-325.
type_texts ==
    [directory |-> {<<"d">>, <<"d", "i", "r", "e", "c", "t", "o", "r", "y">>},
     file |-> {<<"f">>, <<"f", "i", "l", "e">>},
     any |-> {<<"a">>, <<"a", "n", "y">>}]

\* Lines 319-332.
SearchType ==
    /\ Running
    /\ fpc[Main] = "none"
    /\ index = 4
    /\ IF ~given("-type")
       THEN /\ search_type' = search_type
            /\ fpc' = [fpc EXCEPT ![Main] = "depths"]
            /\ err' = err
       ELSE IF \E t \in DOMAIN type_texts : value("-type") \in type_texts[t]
       THEN /\ search_type' = CHOOSE t \in DOMAIN type_texts : value("-type") \in type_texts[t]
            /\ fpc' = [fpc EXCEPT ![Main] = "depths"]
            /\ err' = err
       ELSE /\ err' = err \cup {"Error: unknown search type"}
            /\ exit(1)
            /\ search_type' = search_type
    /\ UNCHANGED <<pattern, min_depth, max_depth, num_threads, sharedVars>>
    /\ UNCHANGED <<thread_id, slot, frame, spawned, nodes, aborted, out, queued, matches>>
    /\ ConfigStep

\* Depths as it would be without the test of line 341.
Depths_noTest ==
    /\ Running
    /\ fpc[Main] = "depths"
    /\ IF throws("-mindepth") \/ throws("-maxdepth")
       THEN /\ aborted' = TRUE
            /\ UNCHANGED <<min_depth, max_depth, fpc, err>>
       ELSE /\ min_depth' = parsed("-mindepth", min_depth)
            /\ max_depth' = parsed("-maxdepth", max_depth)
            /\ aborted' = aborted
            /\ fpc' = [fpc EXCEPT ![Main] = "threads"]
            /\ err' = err
    /\ UNCHANGED <<pattern, search_type, num_threads, sharedVars>>
    /\ UNCHANGED <<thread_id, slot, frame, spawned, nodes, out, queued, matches>>
    /\ ConfigStep

\* Lines 335-344: an exception of std::stoi is caught nowhere and ends the
\* process (std::terminate).
Depths ==
    /\ Running
    /\ fpc[Main] = "depths"
    /\ IF throws("-mindepth") \/ throws("-maxdepth")
       THEN /\ aborted' = TRUE
            /\ UNCHANGED <<min_depth, max_depth, fpc, err>>
       ELSE /\ min_depth' = parsed("-mindepth", min_depth)
            /\ max_depth' = parsed("-maxdepth", max_depth)
            /\ aborted' = aborted
            /\ IF max_depth' < min_depth'
               THEN /\ err' = err \cup {"Error: max depth is less than min depth."}
                    /\ exit(1)
               ELSE /\ err' = err
                    /\ fpc' = [fpc EXCEPT ![Main] = "threads"]
    /\ UNCHANGED <<pattern, search_type, num_threads, sharedVars>>
    /\ UNCHANGED <<thread_id, slot, frame, spawned, nodes, out, queued, matches>>
    /\ ConfigStep

\* Lines 347-354.
NumThreads ==
    /\ Running
    /\ fpc[Main] = "threads"
    /\ IF throws("-j")
       THEN /\ aborted' = TRUE
            /\ UNCHANGED <<num_threads, fpc, err>>
       ELSE /\ num_threads' = parsed("-j", num_threads)
            /\ aborted' = aborted
            /\ IF given("-j") /\ num_threads' < 1
               THEN /\ err' = err \cup {"Error: must use at least 1 thread."}
                    /\ exit(1)
               ELSE /\ err' = err
                    /\ fpc' = [fpc EXCEPT ![Main] = "help"]
    /\ UNCHANGED <<pattern, search_type, min_depth, max_depth, sharedVars>>
    /\ UNCHANGED <<thread_id, slot, frame, spawned, nodes, out, queued, matches>>
    /\ ConfigStep

\* Lines 357-371.
Help ==
    /\ Running
    /\ fpc[Main] = "help"
    /\ IF given("-h")
       THEN /\ out' = [out EXCEPT ![<<"Usage:", 358>>] = @ + 1]
            /\ exit(0)
       ELSE /\ out' = out
            /\ fpc' = [fpc EXCEPT ![Main] = "roots"]
    /\ UNCHANGED <<paramVars, sharedVars>>
    /\ UNCHANGED <<thread_id, slot, frame, spawned, nodes, aborted, err, queued, matches>>
    /\ ConfigStep

\* Lines 374-378: the non-option arguments after the program name become the
\* roots.
Roots ==
    /\ Running
    /\ fpc[Main] = "roots"
    /\ places_queue' = [i \in 1 .. Len(operands) |-> list_node(i, place(operands[i], 0))]
    /\ searched' = {operands[i] : i \in 1 .. Len(operands)}
    /\ nodes' = Len(operands)
    /\ queued' = enqueue_roots(operands, {})
    /\ fpc' = [fpc EXCEPT ![Main] = "lock_pq"]
    /\ UNCHANGED <<paramVars, thread_counter, output_lock, places_queue_lock, thread_counter_lock>>
    /\ UNCHANGED <<thread_id, slot, frame, spawned, aborted, out, err, matches>>
    /\ ConfigStep

NextMain ==
    \/ SelectPattern
    \/ SearchType
    \/ Depths
    \/ NumThreads
    \/ Help
    \/ Roots
    \/ NextSearch

\* The command lines of a run of main: no pattern option, -type absent, f or
\* the unknown q, -mindepth absent, 1 or the text x, -maxdepth absent, 0, 1
\* or -1, -j absent, 0, -1 or 2, -h absent or given, and root r/a alone or with
\* r/x.
OptionTexts ==
    [options |-> [o \in option_str |->
        CASE o = "-type" -> {<<"f">>, <<"q">>}
          [] o = "-mindepth" -> {<<"1">>, <<"x">>}
          [] o = "-maxdepth" -> {<<"0">>, <<"1">>, <<"-", "1">>}
          [] o = "-j" -> {<<"0">>, <<"-", "1">>, <<"2">>}
          [] OTHER -> {<<>>}],
     operands |-> {<<"r/a">>, <<"r/a", "r/x">>}]

InitMain ==
    /\ NoQueue
    /\ args = [o \in 1 .. 4 |-> NoArg]
    /\ options \in [option_str -> {NoArg} \cup {<<text>> : text \in UNION {OptionTexts.options[o] : o \in option_str}}]
    /\ \A o \in option_str : given(o) => value(o) \in OptionTexts.options[o]
    /\ operands \in OptionTexts.operands
    /\ SearchDefaults

SpecMain == InitMain /\ [][NextMain]_vars

----------------------------------------------------------------------------
(* Properties of the options.                                              *)

\* The integer given with an option, as written on the command line.
written(o) == stoi(value(o)).value

\* -mindepth and -maxdepth are given as non-negative integers with the
\* second less than the first.  (Without -mindepth the minimum is 0, and no
\* non-negative maximum is less.)
Misordered ==
    /\ given("-mindepth") /\ ~throws("-mindepth")
    /\ given("-maxdepth") /\ ~throws("-maxdepth")
    /\ 0 <= written("-maxdepth")
    /\ written("-maxdepth") < written("-mindepth")

\* C21: when the maximum depth given is less than the minimum depth given
\* (both non-negative integers), main gets no further than the test of line
\* 341, where it exits with code 1: no root is placed on or taken from the
\* queue and no examine_place thread is started.
C21_DepthOrderChecked ==
    Misordered =>
        /\ fpc[Main] \in {"none", "depths", "exit_1"}
        /\ spawned = 0
        /\ queued = {}
        /\ places_queue = <<>>
        /\ thread_counter = 0

\* -mindepth 1 -maxdepth 0 was read and main has exited with code 1 at line
\* 343.
C21_Witness ==
    /\ Misordered
    /\ fpc[Main] = "exit_1"
    /\ "Error: max depth is less than min depth." \in err

\* -j is given as an integer that is zero or negative.
NonPositiveThreads ==
    /\ given("-j")
    /\ ~throws("-j")
    /\ written("-j") <= 0

----------------------------------------------------------------------------
(* Properties of the thread counter.                                       *)

\* The examine_place threads that are examining their place: started, and
\* not yet at the decrement of line 182, after which a thread only starts
\* the threads of queued places (lines 184-197) and ends.
Examining == {w \in Examiners : fpc[w] \notin {"none", "returned", "loop"}}

Quiescent ==
    /\ places_queue = <<>>
    /\ \A w \in Examiners : fpc[w] \in {"none", "returned"}

\* C24: main leaves its wait loop (lines 401-409) only in a quiescent state:
\* when it has returned, and whenever in the wait loop it can read
\* thread_counter as 0 with thread_counter_lock free, the queue is empty and
\* no examine_place thread is running.
C24_WaitEndsQuiescent ==
    /\ fpc[Main] = "returned" => Quiescent
    /\ (fpc[Main] = "wait" /\ thread_counter_lock = NoThread /\ thread_counter = 0) => Quiescent

\* main has returned after a search in which finishing threads started the
\* threads of queued places.
C24_Witness ==
    /\ fpc[Main] = "returned"
    /\ spawned >= 3
    /\ \E w \in Examiners : fpc[w] = "returned" /\ frame[w].ref # Main

----------------------------------------------------------------------------
(* Properties of the dispatching of thread_queue.                          *)

\* No add_job, start or completion step is in progress: the owner is in its
\* own code or in the wait loop of the destructor, and every worker is not
\* yet started, inside its job, or ended.
NoStepInProgress ==
    /\ ~crashed
    /\ pc[Main] \in {"idle", "dt_lock", "dt_count", "destroyed"}
    /\ \A w \in Workers : pc[w] \in {"unborn", "run", "done"}

\* C25: once started (_auto_start), with no add_job, start or completion step
\* in progress, a job waits in the queue only while _current_num_threads has
\* reached the limit.
C25_WorkConserving ==
    (NoStepInProgress /\ _auto_start /\ size > 0) => _current_num_threads >= _num_threads

\* C26: thread_queue never calls pop on an empty queue: no pop of
\* _start_next_job or _start_all_jobs has thrown, and every job popped had
\* been pushed.
C26_PopFindsAnItem ==
    /\ popThrows = 0
    /\ \A t \in Threads : pc[t] # "threw"
    /\ Len(popped) <= Len(pushed)

\* Job 1 was popped by _start_all_jobs and has returned, and its runner has
\* just popped job 2 in _start_next_job.
C26_Witness ==
    /\ popped = <<1, 2>>
    /\ pc[1] = "sn_inc"
    /\ pc[2] = "run"

\* The destructor waits (lines 246-250) and nothing it waits for can change:
\* every worker that was started has ended, and a job is still queued or
\* _current_num_threads is not 0.
DestructorStuck ==
    /\ ~crashed
    /\ dtor
    /\ pc[Main] \in {"dt_lock", "dt_count"}
    /\ \A w \in Workers : pc[w] \in {"unborn", "done"}
    /\ ~empty \/ _current_num_threads > 0

\* C28: with a limit of at least 1, jobs that all return and finitely many
\* jobs added, the destructor returns: it is never left waiting with no
\* worker that could change what it waits for.
C28_DestructorReturns == ~DestructorStuck

----------------------------------------------------------------------------
(* Further properties of the search.                                       *)

\* main, in its loop of line 382 with places_queue_lock held, waits for
\* thread_counter_lock (line 387), and the thread that holds it waits for
\* places_queue_lock (line 181).
LockCycle ==
    \E w \in Examiners :
        /\ fpc[Main] = "count"
        /\ places_queue_lock = Main
        /\ thread_counter_lock = w
        /\ fpc[w] = "lock_pq"

\* C27: main's loop of line 382 and a finishing examine_place thread never
\* wait for each other's mutex.
C27_NoLockCycle == ~LockCycle

\* The examine_place threads that have been started and have not returned;
\* and the thread main has counted at line 388 and is about to start at
\* line 391.
Live == {w \in Examiners : fpc[w] \notin {"none", "returned"}}
Counted == IF fpc[Main] = "spawn" THEN 1 ELSE 0

\* C29: whenever thread_counter_lock is free, thread_counter is the number of
\* examine_place threads started (or counted and about to be started) that
\* have not returned: every way of leaving examine_place decrements it.
C29_CounterIsLiveThreads ==
    thread_counter_lock = NoThread => thread_counter = Cardinality(Live) + Counted

\* C30: every place put on places_queue is examined: when the run is over
\* with every thread that was started ended, examine_place has run for
\* every queued path.
C30_QueuedIsExamined ==
    (SearchOver /\ \A w \in Examiners : fpc[w] \in {"none", "returned"})
        => \A r \in queued : out[<<r.path, 125>>] > 0

====
